---------------------------- MODULE Spec2Model ----------------------------
(***************************************************************************)
(* Verification model of TrackMeister's asset scripts.                     *)
(*                                                                         *)
(*   Spec       font/convert_font.py, MultiFontAtlas.__init__: the skyline *)
(*              packer that places the font bitmaps in one atlas.          *)
(*   SpecGlyphs font/convert_font.py, BitmapFont.__init__, MSDFFont.__init__*)
(*              and Font.sort_glyphs: the glyph list of one font.          *)
(*   SpecEmit   font/convert_font.py, __main__: the loop that writes the   *)
(*              Fonts[] table with each font's fallback glyph index.       *)
(*   SpecNpot   font/convert_font.py, npot: the loop that rounds up to a     *)
(*              power of two, one iteration per step.                      *)
(*   SpecDownload download_examples.py, __main__ from line 154 on, download *)
(*              and download_zip: the run over the download lists.         *)
(*   SpecMarkdown src/md2html.py, MarkdownToHTML: feed, flush, get_html and  *)
(*              the block tags they write.                                 *)
(*   SpecPredict, SpecRun                                                  *)
(*              the pixel predictor and the run-length codec of the atlas  *)
(*              texture; their code is not among the sources, they are     *)
(*              modelled from sections 4.1 and 4.2 of the specification.   *)
(***************************************************************************)
EXTENDS Integers, Sequences, FiniteSets, TLC

VARIABLES
    pc,           \* position in MultiFontAtlas.__init__
    fonts,        \* self.fonts: sequence of bitmap sizes [w, h] (font.img.size)
    atlas_order,  \* the sorted order, as a sequence of indices into fonts
    width,        \* self.width  (0 until computed)
    height,       \* self.height (0 until computed)
    heights,      \* the skyline dict: its items <<x0, y0>> in insertion order
    atlas_pos,    \* font index -> <<x, y>> (font.atlas_pos)
    k,            \* index into atlas_order of the font the loop is at
    glyphData,    \* the texture rectangles written to GlyphData_<font>[], per font
    gpc,          \* position in BitmapFont.__init__ or MSDFFont.__init__
    cls,          \* the class of the font under construction
    data,         \* MSDFFont: the glyph entries of the JSON file, in file order
    mapping,      \* Mappings[mapping]: the code points of the cells, in order
    grid,         \* <<cols, rows>>: the cells of the font image
    glyphs,       \* self.glyphs
    epc,          \* position in the Fonts[] loop of __main__
    tables,       \* font.glyphs of every font of atlas.fonts
    fi,           \* index of the font the Fonts[] loop is at
    fallback_index, \* the local variable fallback_index (Unbound before any assignment)
    written,      \* the fallback indexes written to Fonts[], one per line
    cpc,          \* position in a codec round trip
    buffer,       \* the byte buffer handed to predict or encode
    planeWidth,   \* the width of the plane (predictor only)
    coded,        \* the residual or the token stream
    restored,     \* what unpredict or decode gives back
    npc,          \* position in npot
    arg,          \* npot: the argument of the call
    nx,           \* npot: the local x
    nshift,       \* npot: the local shift
    dpc,          \* position in download_examples.py, __main__ and download_zip
    urls,         \* the download links found in the charts, as a list of calls to make
    di,           \* index of the entry the download loops are at
    zipdata,      \* download_zip: what the local variable data holds
    errors,       \* the ERROR lines printed to stderr, in order
    failed,       \* the steps that failed, in order
    stored,       \* the files written: <<entry, content>>
    attempted,    \* the entries download or download_zip was called for
    mpc,          \* position in md2html.py: feeding lines, or after get_html
    conv,         \* the MarkdownToHTML object, a record of its fields
    fed           \* the number of lines fed

packVars == <<pc, fonts, atlas_order, width, height, heights, atlas_pos, k, glyphData>>

glyphVars == <<gpc, cls, data, mapping, grid, glyphs>>

emitVars == <<epc, tables, fi, fallback_index, written>>

codecVars == <<cpc, buffer, planeWidth, coded, restored>>

npotVars == <<npc, arg, nx, nshift>>

dlVars == <<dpc, urls, di, zipdata, errors, failed, stored, attempted>>

mdVars == <<mpc, conv, fed>>

vars == <<packVars, glyphVars, emitVars, codecVars, npotVars, dlVars, mdVars>>

----------------------------------------------------------------------------
(* Bounds of the model *)

MaxFonts == 4

\* the sizes (w, h) the font bitmaps are drawn from
BitmapSizes == {<<2, 1>>, <<3, 1>>, <<3, 2>>, <<5, 1>>, <<6, 1>>, <<6, 2>>}

----------------------------------------------------------------------------
(* Integer helpers: Python's & | >> on non-negative integers *)

RECURSIVE BitAnd(_, _)
BitAnd(a, b) ==
    IF a = 0 \/ b = 0 THEN 0
    ELSE (IF a % 2 = 1 /\ b % 2 = 1 THEN 1 ELSE 0) + 2 * BitAnd(a \div 2, b \div 2)

RECURSIVE BitOr(_, _)
BitOr(a, b) ==
    IF a = 0 THEN b
    ELSE IF b = 0 THEN a
    ELSE (IF a % 2 = 1 \/ b % 2 = 1 THEN 1 ELSE 0) + 2 * BitOr(a \div 2, b \div 2)

ShiftRight(a, n) == a \div (2 ^ n)

\* the while loop of npot, entered with x >= 1
RECURSIVE NpotLoop(_, _)
NpotLoop(x, shift) ==
    IF BitAnd(x, x - 1) = 0 THEN x
    ELSE NpotLoop(BitOr(x - 1, ShiftRight(x - 1, shift)) + 1, shift * 2)

npot(x) == NpotLoop(x, 1)

Max(S) == CHOOSE m \in S : \A e \in S : e <= m

Min(S) == CHOOSE m \in S : \A e \in S : m <= e

----------------------------------------------------------------------------
(* sorted(self.fonts, key=lambda font: font.img.size, reverse=True) *)

\* a slip: the sort key taken as (h, w)
HeightFirstLess(a, b) == a.h < b.h \/ (a.h = b.h /\ a.w < b.w)

\* Python's tuple order on sizes (w, h)
SizeLess(a, b) == a.w < b.w \/ (a.w = b.w /\ a.h < b.h)

\* insert font index i behind every entry whose key is not smaller
\* (a stable sort: reverse=True keeps equal keys in input order)
RECURSIVE InsertDesc(_, _, _)
InsertDesc(fs, order, i) ==
    IF order = <<>> THEN <<i>>
    ELSE IF SizeLess(fs[Head(order)], fs[i])
         THEN <<i>> \o order
         ELSE <<Head(order)>> \o InsertDesc(fs, Tail(order), i)

RECURSIVE SortPrefix(_, _)
SortPrefix(fs, n) ==
    IF n = 0 THEN <<>> ELSE InsertDesc(fs, SortPrefix(fs, n - 1), n)

SortedBySize(fs) == SortPrefix(fs, Len(fs))

\* a slip: the canvas width taken from the last (narrowest) bitmap
CanvasWidthOfLast(fs, order) == npot(fs[order[Len(order)]].w)

\* self.width = npot(atlas_order[0].img.size[0])
CanvasWidth(fs, order) == npot(fs[order[1]].w)

----------------------------------------------------------------------------
(* One iteration of the packing loop.  The skyline dict is the sequence of  *)
(* its items <<x0, y0>> in insertion order, the order Python iterates it.   *)

Keys(items) == {items[i][1] : i \in DOMAIN items}

\* the orders in which the items of a dict could be iterated
Orders(items) ==
    {[i \in DOMAIN items |-> items[p[i]]] : p \in Permutations(DOMAIN items)}

\* a slip: min(..., key=top edge), which compares the first component only
FirstLess(a, b) == a[1] < b[1]

\* Python's tuple comparison of (newh, x0, y0)
TupleLess(a, b) ==
    \/ a[1] < b[1]
    \/ a[1] = b[1] /\ a[2] < b[2]
    \/ a[1] = b[1] /\ a[2] = b[2] /\ a[3] < b[3]

\* min() over a non-empty sequence: the first least item met
RECURSIVE PyMinFrom(_, _, _)
PyMinFrom(s, i, best) ==
    IF i > Len(s) THEN best
    ELSE PyMinFrom(s, i + 1, IF TupleLess(s[i], best) THEN s[i] ELSE best)

PyMin(s) == PyMinFrom(s, 2, s[1])

\* the heights the inner max() ranges over for breakpoint x0:
\* cy0 for cx0,cy0 in heights.items() if x0 <= cx0 < x0 + w
SpanHeights(items, x0, w) ==
    {items[i][2] : i \in {j \in DOMAIN items : x0 <= items[j][1] /\ items[j][1] < x0 + w}}

\* the items the outer min() ranges over, in iteration order:
\* ... for x0,y0 in heights.items() if x0 <= self.width - w
Feasible(items, cw, w) == SelectSeq(items, LAMBDA it : it[1] <= cw - w)

\* the tuples (max(...) + h, x0, y0) the generator yields for the items f
RECURSIVE Tuples(_, _, _, _)
Tuples(items, f, w, h) ==
    IF f = <<>> THEN <<>>
    ELSE << <<Max(SpanHeights(items, Head(f)[1], w)) + h, Head(f)[1], Head(f)[2]>> >>
         \o Tuples(items, Tail(f), w, h)

\* the generator of line 64, in iteration order
Candidates(items, cw, w, h) == Tuples(items, Feasible(items, cw, w), w, h)

\* min() or max() of an empty sequence raises ValueError
PlacementFails(items, cw, w, h) ==
    LET f == Feasible(items, cw, w)
    IN  \/ f = <<>>
        \/ \E i \in 1..Len(f) : SpanHeights(items, f[i][1], w) = {}

\* max((x0,y0) for x0,y0 in heights.items() if x0 <= x + w)[1]
RightEdgeHeight(items, x, w) ==
    LET left == {i \in DOMAIN items : items[i][1] <= x + w}
        last == CHOOSE i \in left : \A j \in left : items[j][1] <= items[i][1]
    IN  items[last][2]

\* heights[key] = value: an existing key keeps its place, a new one is appended
SetItem(items, key, value) ==
    IF key \in Keys(items)
    THEN [i \in DOMAIN items |-> IF items[i][1] = key THEN <<key, value>> ELSE items[i]]
    ELSE Append(items, <<key, value>>)

\* for x0 in heights: if x0 <= x < x0 + w: heights[x0] = newh
Raised(items, x, w, newh) ==
    [i \in DOMAIN items |->
        IF items[i][1] <= x /\ x < items[i][1] + w THEN <<items[i][1], newh>> ELSE items[i]]

\* lines 66-69: the skyline after placing a bitmap of width w at breakpoint x
SkylineAfter(items, x, w, newh) ==
    Raised(SetItem(items, x + w, RightEdgeHeight(items, x, w)), x, w, newh)

\* line 64: the tuple (newh, x, y) chosen for a bitmap (w, h) when the
\* skyline is iterated as the sequence items
ChooseSegment(items, cw, w, h) == PyMin(Candidates(items, cw, w, h))

----------------------------------------------------------------------------
(* MultiFontAtlas.__init__ as a state machine *)

Sizes == {[w |-> s[1], h |-> s[2]] : s \in BitmapSizes}

FontLists == UNION {[1..n -> Sizes] : n \in 1..MaxFonts}

\* the local fallback_index of __main__ before its first assignment
Unbound == -1

\* the other components at rest
GlyphsIdle ==
    /\ gpc = "idle" /\ cls = "none" /\ data = <<>>
    /\ mapping = <<>> /\ grid = <<0, 0>> /\ glyphs = <<>>

EmitIdle ==
    /\ epc = "idle" /\ tables = <<>> /\ fi = 0
    /\ fallback_index = Unbound /\ written = <<>>

CodecIdle ==
    /\ cpc = "idle" /\ buffer = <<>> /\ planeWidth = 0 /\ coded = <<>> /\ restored = <<>>

NpotIdle == npc = "idle" /\ arg = 0 /\ nx = 0 /\ nshift = 0

DownloadIdle ==
    /\ dpc = "idle" /\ urls = <<>> /\ di = 0 /\ zipdata = "unbound"
    /\ errors = <<>> /\ failed = <<>> /\ stored = <<>> /\ attempted = {}

MarkdownIdle == mpc = "idle" /\ conv = <<>> /\ fed = 0

PackIdle ==
    /\ pc = "idle" /\ fonts = <<>> /\ atlas_order = <<>> /\ width = 0 /\ height = 0
    /\ heights = <<>> /\ atlas_pos = <<>> /\ k = 0 /\ glyphData = <<>>

\* the caller's fonts, each with Font.__init__'s atlas_pos = (0,0)
Init ==
    /\ GlyphsIdle /\ EmitIdle /\ CodecIdle /\ NpotIdle /\ DownloadIdle /\ MarkdownIdle
    /\ pc = "start"
    /\ fonts \in FontLists
    /\ atlas_order = <<>>
    /\ width = 0
    /\ height = 0
    /\ heights = <<>>
    /\ atlas_pos = [i \in DOMAIN fonts |-> <<0, 0>>]
    /\ k = 0
    /\ glyphData = <<>>

\* lines 59-61: sort, fix the canvas width, start the skyline
Prepare ==
    /\ pc = "start"
    /\ atlas_order' = SortedBySize(fonts)
    /\ width' = CanvasWidth(fonts, atlas_order')
    /\ heights' = << <<0, 0>> >>
    /\ k' = 1
    /\ pc' = "pack"
    /\ UNCHANGED <<fonts, height, atlas_pos, glyphData, glyphVars, emitVars, codecVars, npotVars, dlVars, mdVars>>

\* lines 62-69: one iteration of the loop
Place ==
    /\ pc = "pack"
    /\ k <= Len(atlas_order)
    /\ LET font == atlas_order[k]
           w == fonts[font].w
           h == fonts[font].h
       IN  IF PlacementFails(heights, width, w, h)
           THEN /\ pc' = "ValueError"
                /\ UNCHANGED <<heights, atlas_pos, k>>
           ELSE LET best == ChooseSegment(heights, width, w, h)
                IN  /\ atlas_pos' = [atlas_pos EXCEPT ![font] = <<best[2], best[3]>>]
                    /\ heights' = SkylineAfter(heights, best[2], w, best[1])
                    /\ k' = k + 1
                    /\ pc' = "pack"
    /\ UNCHANGED <<fonts, atlas_order, width, height, glyphData, glyphVars, emitVars, codecVars, npotVars, dlVars, mdVars>>

\* line 70: the canvas height
Finish ==
    /\ pc = "pack"
    /\ k > Len(atlas_order)
    /\ height' = npot(Max({heights[i][2] : i \in DOMAIN heights}))
    /\ pc' = "done"
    /\ UNCHANGED <<fonts, atlas_order, width, heights, atlas_pos, k, glyphData, glyphVars, emitVars, codecVars, npotVars, dlVars, mdVars>>

\* the atlas boxes (tx0, ty0, tx1, ty1) of a font's glyphs: every box with
\* integer corners that lies inside the font's own bitmap of size (w, h)
AtlasBoxes(w, h) ==
    {box \in (0..w) \X (0..h) \X (0..w) \X (0..h) : box[1] <= box[3] /\ box[2] <= box[4]}

\* line 216: the texture rectangle of one glyph, each coordinate as the
\* pair <<numerator, denominator>> the line writes ("{tx0+ox}f/{atlas.width}")
TextureRect(box, ox, oy) ==
    << <<box[1] + ox, width>>, <<box[2] + oy, height>>,
       <<box[3] + ox, width>>, <<box[4] + oy, height>> >>

\* lines 211-217: the GlyphData arrays of all fonts
EmitGlyphData ==
    /\ pc = "done"
    /\ glyphData' = [f \in DOMAIN fonts |->
                        {TextureRect(box, atlas_pos[f][1], atlas_pos[f][2]) :
                            box \in AtlasBoxes(fonts[f].w, fonts[f].h)}]
    /\ pc' = "emitted"
    /\ UNCHANGED <<fonts, atlas_order, width, height, heights, atlas_pos, k, glyphVars, emitVars, codecVars, npotVars, dlVars, mdVars>>

Next == Prepare \/ Place \/ Finish \/ EmitGlyphData

Spec == Init /\ [][Next]_vars

----------------------------------------------------------------------------
(* Properties of the packer *)

\* the fonts the loop has assigned a position to
Placed == {atlas_order[i] : i \in 1..(k - 1)}

\* the rectangle of font f in the atlas: [x, x+w) x [y, y+h)
Left(f)   == atlas_pos[f][1]
Top(f)    == atlas_pos[f][2]
Right(f)  == atlas_pos[f][1] + fonts[f].w
Bottom(f) == atlas_pos[f][2] + fonts[f].h

Overlap(a, b) ==
    /\ Left(a) < Right(b) /\ Left(b) < Right(a)
    /\ Top(a) < Bottom(b) /\ Top(b) < Bottom(a)

PowersOfTwo == {2 ^ i : i \in 0..10}

SmallestPowerOfTwoAtLeast(n) ==
    CHOOSE p \in PowersOfTwo : p >= n /\ \A q \in PowersOfTwo : q >= n => p <= q

\* C1: after packing, no two distinct fonts' rectangles
\* [x, x+w) x [y, y+h) intersect.
NoOverlap ==
    pc = "done" => \A a, b \in DOMAIN fonts : a # b => ~Overlap(a, b)

\* C2: after packing, every font's rectangle lies inside the canvas:
\* 0 <= x, 0 <= y, x + w <= width and y + h <= height.
WithinCanvas ==
    pc = "done" =>
        \A f \in DOMAIN fonts :
            /\ 0 <= Left(f) /\ 0 <= Top(f)
            /\ Right(f) <= width /\ Bottom(f) <= height

\* C3: after packing, width is the smallest power of two >= the largest
\* x + w (and >= the widest bitmap), and height is the smallest power of two
\* >= the largest y + h over the placed bitmaps.
SmallestCanvas ==
    pc = "done" =>
        /\ width = SmallestPowerOfTwoAtLeast(Max({Right(f) : f \in DOMAIN fonts}))
        /\ width = SmallestPowerOfTwoAtLeast(Max({fonts[f].w : f \in DOMAIN fonts}))
        /\ height = SmallestPowerOfTwoAtLeast(Max({Bottom(f) : f \in DOMAIN fonts}))

\* the width half of C3 alone
SmallestWidth ==
    pc = "done" =>
        /\ width = SmallestPowerOfTwoAtLeast(Max({Right(f) : f \in DOMAIN fonts}))
        /\ width = SmallestPowerOfTwoAtLeast(Max({fonts[f].w : f \in DOMAIN fonts}))

\* C4: packing has no failure mode: no min() or max() is taken over an empty
\* set, at every step some breakpoint x0 has x0 + w <= width (no bitmap is
\* wider than the canvas), the loop index stays within the list, and when the
\* loop is done every bitmap has been given a position.
PackingNeverFails ==
    /\ pc # "ValueError"
    /\ Len(fonts) >= 1
    /\ pc = "pack" => k \in 1..(Len(atlas_order) + 1)
    /\ (pc = "pack" /\ k <= Len(atlas_order)) =>
          LET w == fonts[atlas_order[k]].w
          IN  /\ w <= width
              /\ \E i \in DOMAIN heights : heights[i][1] + w <= width
              /\ \A i \in DOMAIN heights :
                    heights[i][1] + w <= width => SpanHeights(heights, heights[i][1], w) # {}
    /\ pc = "done" => Placed = DOMAIN fonts

\* C4 happens: a run that placed several bitmaps beside and upon each other
PackingDone ==
    /\ pc = "done"
    /\ Len(fonts) >= 3
    /\ Len(heights) >= 4
    /\ \E f \in DOMAIN fonts : Left(f) > 0
    /\ \E f \in DOMAIN fonts : Top(f) > 0

\* the skyline as a mapping, whatever the order of its items
ItemSet(items) == {items[i] : i \in DOMAIN items}

\* C5: packing is deterministic: in whatever order the skyline map is
\* iterated, a step chooses the same position and leaves the same skyline, so
\* the layout is a function of the ordered input list; bitmaps of equal size
\* are handled in input order.
Deterministic ==
    /\ (pc = "pack" /\ k <= Len(atlas_order)) =>
          LET w == fonts[atlas_order[k]].w
              h == fonts[atlas_order[k]].h
              best == ChooseSegment(heights, width, w, h)
              after == ItemSet(SkylineAfter(heights, best[2], w, best[1]))
          IN  \A ord \in Orders(heights) :
                 /\ ChooseSegment(ord, width, w, h) = best
                 /\ ItemSet(SkylineAfter(ord, best[2], w, best[1])) = after
    /\ pc # "start" =>
          /\ Len(atlas_order) = Len(fonts)
          /\ {atlas_order[i] : i \in DOMAIN atlas_order} = DOMAIN fonts
          /\ \A i, j \in DOMAIN atlas_order :
                (i < j /\ fonts[atlas_order[i]] = fonts[atlas_order[j]])
                    => atlas_order[i] < atlas_order[j]

\* C5 happens: a step where two breakpoints offer the same top edge, so that
\* only the rest of the tuple decides, with two bitmaps of equal size
TiedStep ==
    /\ pc = "pack" /\ k <= Len(atlas_order)
    /\ LET c == Candidates(heights, width, fonts[atlas_order[k]].w, fonts[atlas_order[k]].h)
       IN  \E i, j \in DOMAIN c :
              i # j /\ c[i][1] = c[j][1] /\ c[i][1] = ChooseSegment(heights, width,
                         fonts[atlas_order[k]].w, fonts[atlas_order[k]].h)[1]
    /\ \E i, j \in DOMAIN fonts : i # j /\ fonts[i] = fonts[j]

\* C14 as stated: bitmaps are placed tallest first: a bitmap not yet placed
\* is never strictly taller than one already placed, whatever their widths.
TallestFirst ==
    pc \in {"pack", "done", "emitted"} =>
        \A a \in Placed : \A b \in (DOMAIN fonts) \ Placed : fonts[b].h <= fonts[a].h

\* C14, amended: bitmaps are placed in descending order of (width, height):
\* a bitmap placed before another is wider, or as wide and taller, or of the
\* same size and earlier in the input list.
WidestFirst ==
    pc \in {"pack", "done", "emitted"} =>
        \A a \in Placed : \A b \in (DOMAIN fonts) \ Placed :
            \/ fonts[a].w > fonts[b].w
            \/ fonts[a].w = fonts[b].w /\ fonts[a].h > fonts[b].h
            \/ fonts[a] = fonts[b] /\ a < b

\* a wider, shorter bitmap has been placed and a narrower, taller one is
\* still waiting
TallerWaits ==
    /\ pc = "pack"
    /\ \E a \in Placed : \E b \in (DOMAIN fonts) \ Placed :
          fonts[a].w > fonts[b].w /\ fonts[a].h < fonts[b].h

\* a step of the loop that places the font atlas_order[k]
PlaceStep == pc = "pack" /\ pc' = "pack" /\ k' = k + 1

\* C15: the bitmap is placed at the feasible breakpoint (x0 + w <= width)
\* whose top edge after placement, placement y + h, is lowest, and at the
\* leftmost of the breakpoints with that lowest top edge.  The placement y
\* at a breakpoint is the y the packer assigns there, the breakpoint's y0.
LowestTopEdgeStep ==
    PlaceStep =>
        LET font == atlas_order[k]
            w == fonts[font].w
            h == fonts[font].h
            x == atlas_pos'[font][1]
            y == atlas_pos'[font][2]
        IN  /\ x + w <= width
            /\ \A i \in DOMAIN heights :
                  heights[i][1] + w <= width =>
                      \/ y + h < heights[i][2] + h
                      \/ y + h = heights[i][2] + h /\ x <= heights[i][1]

LowestTopEdge == [][LowestTopEdgeStep]_vars

\* heights[key]
Lookup(items, key) == items[CHOOSE i \in DOMAIN items : items[i][1] = key][2]

\* the height of the skyline at position pos: the value of the last
\* breakpoint at or left of pos
SkylineAt(items, pos) ==
    Lookup(items, Max({key \in Keys(items) : key <= pos}))

\* C16: after a placement of (w, h) at (x, y) every breakpoint inside
\* [x, x+w) maps to y + h, the skyline from x + w onward keeps the height it
\* had before, and no breakpoint outside [x, x+w) is changed.
SkylineFrameStep ==
    PlaceStep =>
        LET font == atlas_order[k]
            w == fonts[font].w
            h == fonts[font].h
            x == atlas_pos'[font][1]
            y == atlas_pos'[font][2]
        IN  /\ \A key \in Keys(heights') :
                  (x <= key /\ key < x + w) => Lookup(heights', key) = y + h
            /\ SkylineAt(heights', x + w) = SkylineAt(heights, x + w)
            /\ \A key \in Keys(heights) :
                  ~(x <= key /\ key < x + w) =>
                      key \in Keys(heights') /\ Lookup(heights', key) = Lookup(heights, key)

SkylineFrame == [][SkylineFrameStep]_vars

\* C11: for every glyph whose atlas box lies inside its own font bitmap, the
\* emitted texture rectangle has all four coordinates in [0, 1]: every
\* numerator tx+ox lies in 0..atlas.width and every ty+oy in 0..atlas.height.
TextureRectsInUnitSquare ==
    pc = "emitted" =>
        \A f \in DOMAIN glyphData : \A rect \in glyphData[f] :
            \A c \in 1..4 : 0 <= rect[c][1] /\ rect[c][1] <= rect[c][2]

----------------------------------------------------------------------------
(* npot, lines 42-47, one loop iteration per step *)

MaxArg == 300

\* a slip: the loop body without its "+ 1"
NpotBodyWithoutIncrement(v, s) == BitOr(v - 1, ShiftRight(v - 1, s))

\* line 45: x = ((x - 1) | ((x - 1) >> shift)) + 1
NpotBody(v, s) == BitOr(v - 1, ShiftRight(v - 1, s)) + 1

\* the call npot(arg), arg >= 1; line 43
InitNpot ==
    /\ PackIdle /\ GlyphsIdle /\ EmitIdle /\ CodecIdle /\ DownloadIdle /\ MarkdownIdle
    /\ npc = "while"
    /\ arg \in 1..MaxArg
    /\ nx = arg
    /\ nshift = 1

\* lines 44-46: the loop condition holds, one run of the body
NpotIterate ==
    /\ npc = "while"
    /\ BitAnd(nx, nx - 1) # 0
    /\ nx' = NpotBody(nx, nshift)
    /\ nshift' = nshift * 2
    /\ UNCHANGED <<npc, arg, packVars, glyphVars, emitVars, codecVars, dlVars, mdVars>>

\* lines 44 and 47: the loop condition fails, return x
NpotReturn ==
    /\ npc = "while"
    /\ BitAnd(nx, nx - 1) = 0
    /\ npc' = "returned"
    /\ UNCHANGED <<arg, nx, nshift, packVars, glyphVars, emitVars, codecVars, dlVars, mdVars>>

NextNpot == NpotIterate \/ NpotReturn

\* the interpreter keeps running the call
SpecNpot == InitNpot /\ [][NextNpot]_vars /\ WF_vars(NextNpot)

\* the number of binary digits of n
RECURSIVE BitLength(_)
BitLength(n) == IF n = 0 THEN 0 ELSE 1 + BitLength(n \div 2)

\* C17: for every x >= 1, npot(x) terminates and returns the smallest power
\* of two >= x (x itself when x is a power of two); while the loop goes on,
\* shift stays below the bit length of x - 1, so every iteration changes x.
NpotRoundsUp ==
    /\ [](npc = "returned" =>
            /\ nx = SmallestPowerOfTwoAtLeast(arg)
            /\ nx = npot(arg)
            /\ arg \in PowersOfTwo => nx = arg)
    /\ []((npc = "while" /\ BitAnd(nx, nx - 1) # 0) =>
            /\ nshift < BitLength(nx - 1)
            /\ NpotBody(nx, nshift) > nx)
    /\ <>(npc = "returned")

\* a call that needed the third iteration (shift = 4) has returned
NpotThreeIterations ==
    npc = "returned" /\ nshift = 8 /\ nx > arg

----------------------------------------------------------------------------
(* BitmapFont.__init__ and Font.sort_glyphs.  A glyph is the tuple           *)
(* <<cp, adv, space, plane_box, atlas_box>> of the code.                     *)

MaxGlyphs == 4
MaxCols == 2
MaxRows == 2

\* the code points a mapping is drawn from
GlyphCodepoints == {0, 32, 65, 9723}

\* cell_size=(8,8), the default, which display_size falls back to
CellW == 8
CellH == 8

isspace(cp) == cp \in {32, 160}

\* Python's order on tuples of numbers of the same length
RECURSIVE SeqLess(_, _)
SeqLess(a, b) ==
    IF a = <<>> \/ b = <<>> THEN a = <<>> /\ b # <<>>
    ELSE \/ Head(a) < Head(b)
         \/ Head(a) = Head(b) /\ SeqLess(Tail(a), Tail(b))

\* Python's order on glyph tuples (False < True)
GlyphLess(g1, g2) ==
    SeqLess(<<g1[1], g1[2], IF g1[3] THEN 1 ELSE 0>> \o g1[4] \o g1[5],
            <<g2[1], g2[2], IF g2[3] THEN 1 ELSE 0>> \o g2[4] \o g2[5])

\* sorted(): stable, ascending
RECURSIVE InsertAsc(_, _)
InsertAsc(s, g) ==
    IF s = <<>> THEN <<g>>
    ELSE IF GlyphLess(g, Head(s)) THEN <<g>> \o s
         ELSE <<Head(s)>> \o InsertAsc(Tail(s), g)

RECURSIVE SortedGlyphs(_)
SortedGlyphs(gs) ==
    IF gs = <<>> THEN <<>>
    ELSE InsertAsc(SortedGlyphs(SubSeq(gs, 1, Len(gs) - 1)), gs[Len(gs)])

\* _uniq: yield g when g[0] != prev, prev starting at 0
RECURSIVE Uniq(_, _)
Uniq(gs, prev) ==
    IF gs = <<>> THEN <<>>
    ELSE (IF Head(gs)[1] # prev THEN <<Head(gs)>> ELSE <<>>) \o Uniq(Tail(gs), Head(gs)[1])

\* self.glyphs = list(_uniq(sorted(self.glyphs))), _uniq sorting once more
sort_glyphs(gs) == Uniq(SortedGlyphs(SortedGlyphs(gs)), 0)

\* coords[n - 1] for cell n = 1, 2, ...: row by row, cols cells per row
CellCoord(n, cols) == <<((n - 1) % cols) * CellW, ((n - 1) \div cols) * CellH>>

\* lines 160-165: one glyph per pair of zip(Mappings[mapping], coords)
BitmapGlyphs(m, g) ==
    LET n == IF Len(m) < g[1] * g[2] THEN Len(m) ELSE g[1] * g[2]
        adv == CellW \div CellH
        cw == CellW \div CellH
    IN  [i \in 1..n |->
            LET c == CellCoord(i, g[1])
            IN  <<m[i], adv, isspace(m[i]), <<0, 0, cw, 1>>,
                  <<c[1], c[2], c[1] + CellW, c[2] + CellH>> >>]

Mappings == UNION {[1..n -> GlyphCodepoints] : n \in 0..MaxGlyphs}

\* MSDFFont: the cases of one JSON glyph entry.  None stands for an absent
\* key (g.get() gives None); the bounds are in pixels from the bottom left.
None == <<>>

MaxJsonGlyphs == 2

MsdfCodepoints == {32, 65}

PlaneBounds == {None, [left |-> 0, bottom |-> 0, right |-> 1, top |-> 1]}

AtlasBounds == {None, [left |-> 0, bottom |-> 0, right |-> 2, top |-> 2]}

JsonGlyphs == [unicode : MsdfCodepoints, advance : {1}, planeBounds : PlaneBounds, atlasBounds : AtlasBounds]

JsonFiles == UNION {[1..n -> JsonGlyphs] : n \in 1..MaxJsonGlyphs}

\* lines 106-110: atlas['height'], metrics['lineHeight'], metrics['ascender']
AtlasHeight == 4
LineHeight == 1
Ascender == 1

mscale == 1 \div LineHeight
mbase == Ascender * mscale

\* lines 111-116: glyphs = { g['unicode']: g for g in ... }
RECURSIVE GlyphDict(_)
GlyphDict(entries) ==
    IF entries = <<>> THEN <<>>
    ELSE LET g == entries[Len(entries)]
         IN  SetItem(GlyphDict(SubSeq(entries, 1, Len(entries) - 1)), g.unicode, g)

\* lines 125-143: the glyph tuple of one entry
MSDFGlyph(cp, g) ==
    LET p == g.planeBounds
        t == g.atlasBounds
        plane == IF p # None
                 THEN <<p.left * mscale, mbase - p.top * mscale,
                        p.right * mscale, mbase - p.bottom * mscale>>
                 ELSE <<0, 0, 0, 0>>
        atlas == IF t # None
                 THEN <<t.left, AtlasHeight - t.top, t.right, AtlasHeight - t.bottom>>
                 ELSE <<0, 0, 0, 0>>
    IN  <<cp, g.advance * mscale, ~(t # None /\ p # None), plane, atlas>>

\* lines 122-143: one glyph per key of the dict, in the dict's order
MSDFGlyphs(entries) ==
    LET d == GlyphDict(entries)
    IN  [i \in DOMAIN d |-> MSDFGlyph(d[i][1], d[i][2])]

\* a font of either class, with its input
InitGlyphs ==
    /\ PackIdle /\ EmitIdle /\ CodecIdle /\ NpotIdle /\ DownloadIdle /\ MarkdownIdle
    /\ \/ /\ cls = "BitmapFont"
          /\ mapping \in Mappings
          /\ grid \in (1..MaxCols) \X (1..MaxRows)
          /\ data = <<>>
       \/ /\ cls = "MSDFFont"
          /\ data \in JsonFiles
          /\ mapping = <<>>
          /\ grid = <<0, 0>>
    /\ gpc = "new"
    /\ glyphs = <<>>

\* lines 122-143
ListMSDFGlyphs ==
    /\ gpc = "new"
    /\ cls = "MSDFFont"
    /\ glyphs' = MSDFGlyphs(data)
    /\ gpc' = "listed"
    /\ UNCHANGED <<cls, data, mapping, grid, packVars, emitVars, codecVars, npotVars, dlVars, mdVars>>

\* the glyph list before sort_glyphs
ListedGlyphs == IF cls = "MSDFFont" THEN MSDFGlyphs(data) ELSE BitmapGlyphs(mapping, grid)

\* lines 162-165
ListGlyphs ==
    /\ gpc = "new"
    /\ cls = "BitmapFont"
    /\ glyphs' = BitmapGlyphs(mapping, grid)
    /\ gpc' = "listed"
    /\ UNCHANGED <<cls, data, mapping, grid, packVars, emitVars, codecVars, npotVars, dlVars, mdVars>>

\* lines 144 and 166
SortGlyphs ==
    /\ gpc = "listed"
    /\ glyphs' = sort_glyphs(glyphs)
    /\ gpc' = "sorted"
    /\ UNCHANGED <<cls, data, mapping, grid, packVars, emitVars, codecVars, npotVars, dlVars, mdVars>>

NextGlyphs == ListGlyphs \/ ListMSDFGlyphs \/ SortGlyphs

SpecGlyphs == InitGlyphs /\ [][NextGlyphs]_vars

\* C8: after sort_glyphs the glyph list is strictly ascending by code point,
\* and the surviving record of a code point that occurred more than once in
\* the input list is the one that came last in the input.
LaterGlyphWins ==
    gpc = "sorted" =>
        LET input == ListedGlyphs
        IN  /\ \A i \in 1..(Len(glyphs) - 1) : glyphs[i][1] < glyphs[i + 1][1]
            /\ \A i \in DOMAIN glyphs :
                  LET occ == {j \in DOMAIN input : input[j][1] = glyphs[i][1]}
                  IN  Cardinality(occ) > 1 => glyphs[i] = input[Max(occ)]

\* the first half of C8 alone: strictly ascending by code point
StrictlyAscending ==
    gpc = "sorted" => \A i \in 1..(Len(glyphs) - 1) : glyphs[i][1] < glyphs[i + 1][1]

\* the code points of a glyph list
CodepointSet(gs) == {gs[i][1] : i \in DOMAIN gs}

\* C18: sort_glyphs loses no code point: the code points of the sorted list
\* are those of the list before the call, also when code point 0 is among them.
NoCodepointLost ==
    gpc = "sorted" => CodepointSet(glyphs) = CodepointSet(ListedGlyphs)

\* C12: in every glyph record built by MSDFFont or BitmapFont, is_space is
\* true exactly when the code point is 0x20 or 0xA0.
SpaceFlagIsWhitespace ==
    gpc \in {"listed", "sorted"} =>
        \A i \in DOMAIN glyphs : glyphs[i][3] <=> isspace(glyphs[i][1])

\* C13: in every glyph record plane_box and atlas_box are both taken from the
\* input bounds or both all-zero, whether the input glyph supplies both, one
\* or neither of planeBounds and atlasBounds.
BoxesBothOrNeither ==
    gpc \in {"listed", "sorted"} =>
        \A i \in DOMAIN glyphs :
            (glyphs[i][4] = <<0, 0, 0, 0>>) <=> (glyphs[i][5] = <<0, 0, 0, 0>>)

----------------------------------------------------------------------------
(* __main__, lines 197-208: the Fonts[] table *)

MaxEmitFonts == 2

\* the code points the fonts' glyph tables are made of
EmitCodepoints == {32, 63, 65, 9723, 9724}

\* (0xFFFD, 0x25FB, 0x25FC, 0x25FD, 0x25FE, 0x25A1, 0x25A0, ord('?'), 32)
PriorityList == <<65533, 9723, 9724, 9725, 9726, 9633, 9632, 63, 32>>

\* a mapping that lists the code points of S, the greatest first
RECURSIVE Enumerate(_)
Enumerate(S) == IF S = {} THEN <<>> ELSE <<Max(S)>> \o Enumerate(S \ {Max(S)})

\* the glyph tables of the fonts: what BitmapFont.__init__ builds from a
\* mapping over a one-row image
EmitTables ==
    {sort_glyphs(BitmapGlyphs(Enumerate(S), <<Cardinality(S), 1>>)) : S \in SUBSET EmitCodepoints}

Codepoints(table) == {table[i][1] : i \in DOMAIN table}

\* cp2idx = { g[0]:i for i,g in enumerate(font.glyphs) }
Cp2Idx(table) ==
    [cp \in Codepoints(table) |-> Max({i \in DOMAIN table : table[i][1] = cp}) - 1]

\* a slip: the loop without its break, so that the last hit stays
RECURSIVE ScanWithoutBreak(_, _, _)
ScanWithoutBreak(cp2idx, j, current) ==
    IF j > Len(PriorityList) THEN current
    ELSE ScanWithoutBreak(cp2idx, j + 1,
            IF PriorityList[j] \in DOMAIN cp2idx THEN cp2idx[PriorityList[j]] ELSE current)

\* lines 201-206: the value of fallback_index after the loop over the
\* priority list from entry j on, current being its value before
RECURSIVE ScanPriority(_, _, _)
ScanPriority(cp2idx, j, current) ==
    IF j > Len(PriorityList) THEN current
    ELSE IF PriorityList[j] \in DOMAIN cp2idx THEN cp2idx[PriorityList[j]]
    ELSE ScanPriority(cp2idx, j + 1, current)

InitEmit ==
    /\ PackIdle /\ GlyphsIdle /\ CodecIdle /\ NpotIdle /\ DownloadIdle /\ MarkdownIdle
    /\ epc = "fonts"
    /\ tables \in UNION {[1..n -> EmitTables] : n \in 1..MaxEmitFonts}
    /\ fi = 1
    /\ fallback_index = Unbound
    /\ written = <<>>

\* lines 198-207: one font's line; formatting an unbound name raises NameError
WriteFontLine ==
    /\ epc = "fonts"
    /\ fi <= Len(tables)
    /\ LET fb == ScanPriority(Cp2Idx(tables[fi]), 1, fallback_index)
       IN  IF fb = Unbound
           THEN /\ epc' = "NameError"
                /\ UNCHANGED <<fi, fallback_index, written>>
           ELSE /\ fallback_index' = fb
                /\ written' = Append(written, fb)
                /\ fi' = fi + 1
                /\ epc' = "fonts"
    /\ UNCHANGED <<tables, packVars, glyphVars, codecVars, npotVars, dlVars, mdVars>>

\* line 208
EndOfFonts ==
    /\ epc = "fonts"
    /\ fi > Len(tables)
    /\ epc' = "done"
    /\ UNCHANGED <<tables, fi, fallback_index, written, packVars, glyphVars, codecVars, npotVars, dlVars, mdVars>>

NextEmit == WriteFontLine \/ EndOfFonts

SpecEmit == InitEmit /\ [][NextEmit]_vars

PriorityPresent(table) == {j \in DOMAIN PriorityList : PriorityList[j] \in Codepoints(table)}

\* C9: for a font whose table holds a code point of the priority list, the
\* index written is that of the first code point of the list that the table
\* holds, counted in the font's own table.
FallbackIsFirstPresent ==
    \A i \in DOMAIN written :
        PriorityPresent(tables[i]) # {} =>
            LET cp == PriorityList[Min(PriorityPresent(tables[i]))]
            IN  /\ written[i] \in 0..(Len(tables[i]) - 1)
                /\ tables[i][written[i] + 1][1] = cp

\* C9 happens: a later font with several code points of the list, whose
\* index differs from the one written for the font before it
SecondFontFallback ==
    \E i \in DOMAIN written :
        /\ i >= 2
        /\ Cardinality(PriorityPresent(tables[i])) >= 2
        /\ written[i] # written[i - 1]
        /\ written[i] # 0

\* C10: a font that holds no code point of the priority list stops the
\* build: no fallback index is written for it and the loop never gets past it.
MissingFallbackIsFatal ==
    \A i \in DOMAIN tables :
        PriorityPresent(tables[i]) = {} =>
            /\ fi <= i
            /\ Len(written) < i
            /\ epc # "done"

----------------------------------------------------------------------------
(* PixelPredictor (specification, section 4.1).  A buffer is a sequence of  *)
(* bytes; sample i of the text is element i + 1 here.                       *)

MaxPlaneLen == 4

\* the byte values the planes are made of
ByteSamples == {0, 1, 128, 255}

Min3(a, b, c) == IF a <= b /\ a <= c THEN a ELSE IF b <= c THEN b ELSE c
Max3(a, b, c) == IF a >= b /\ a >= c THEN a ELSE IF b >= c THEN b ELSE c

Clamp(v, lo, hi) == IF v < lo THEN lo ELSE IF v > hi THEN hi ELSE v

\* the neighbours of element n in a grid of the given width, zero outside
West(buf, n, w)      == IF (n - 1) % w > 0 THEN buf[n - 1] ELSE 0
North(buf, n, w)     == IF n - w >= 1 THEN buf[n - w] ELSE 0
NorthWest(buf, n, w) == IF (n - 1) % w > 0 /\ n - w >= 1 THEN buf[n - w - 1] ELSE 0

\* p = N + W - NW clamped to [min(W,N,NW), max(W,N,NW)]
Predicted(buf, n, w) ==
    LET W == West(buf, n, w)
        N == North(buf, n, w)
        NW == NorthWest(buf, n, w)
    IN  Clamp(N + W - NW, Min3(W, N, NW), Max3(W, N, NW))

\* residual[i] = (data[i] - p) mod 256
predict(plane, w) ==
    [n \in 1..Len(plane) |-> (plane[n] - Predicted(plane, n, w)) % 256]

\* a slip: the neighbours taken from the residual instead of the decoded output
RECURSIVE UnpredictFromResidual(_, _, _)
UnpredictFromResidual(residual, w, out) ==
    IF Len(out) = Len(residual) THEN out
    ELSE LET n == Len(out) + 1
         IN  UnpredictFromResidual(residual, w,
                 Append(out, (residual[n] + Predicted(residual, n, w)) % 256))

\* data[i] = (residual[i] + p) mod 256, p from the output decoded so far
RECURSIVE UnpredictFrom(_, _, _)
UnpredictFrom(residual, w, out) ==
    IF Len(out) = Len(residual) THEN out
    ELSE LET n == Len(out) + 1
         IN  UnpredictFrom(residual, w,
                 Append(out, (residual[n] + Predicted(out, n, w)) % 256))

unpredict(residual, w) == UnpredictFrom(residual, w, <<>>)

Planes == UNION {[1..n -> ByteSamples] : n \in 1..MaxPlaneLen}

InitPredict ==
    /\ PackIdle /\ GlyphsIdle /\ EmitIdle /\ NpotIdle /\ DownloadIdle /\ MarkdownIdle
    /\ cpc = "plane"
    /\ buffer \in Planes
    /\ planeWidth \in {w \in 1..Len(buffer) : Len(buffer) % w = 0}
    /\ coded = <<>>
    /\ restored = <<>>

Predict ==
    /\ cpc = "plane"
    /\ coded' = predict(buffer, planeWidth)
    /\ cpc' = "residual"
    /\ UNCHANGED <<buffer, planeWidth, restored, packVars, glyphVars, emitVars, npotVars, dlVars, mdVars>>

Unpredict ==
    /\ cpc = "residual"
    /\ restored' = unpredict(coded, planeWidth)
    /\ cpc' = "restored"
    /\ UNCHANGED <<buffer, planeWidth, coded, packVars, glyphVars, emitVars, npotVars, dlVars, mdVars>>

NextPredict == Predict \/ Unpredict

SpecPredict == InitPredict /\ [][NextPredict]_vars

IsBytes(s) == \A i \in DOMAIN s : s[i] \in 0..255

\* C6: unpredict(predict(p, width), width) = p for every plane p and every
\* positive width dividing its length, the residual being bytes.
PredictorRoundTrip ==
    /\ cpc \in {"residual", "restored"} => Len(coded) = Len(buffer) /\ IsBytes(coded)
    /\ cpc = "restored" => restored = buffer

\* C6 happens: a plane of several rows and columns whose prediction was
\* clamped somewhere and whose residual wrapped around modulo 256
ClampedPlaneRestored ==
    /\ cpc = "restored"
    /\ planeWidth > 1 /\ Len(buffer) > planeWidth
    /\ \E n \in DOMAIN buffer :
          LET p == North(buffer, n, planeWidth) + West(buffer, n, planeWidth)
                     - NorthWest(buffer, n, planeWidth)
          IN  /\ p # Predicted(buffer, n, planeWidth)
              /\ buffer[n] < Predicted(buffer, n, planeWidth)

----------------------------------------------------------------------------
(* RunCodec (specification, section 4.2) *)

MaxBufferLen == 5
MaxSegments == 3

\* the byte values of the short buffers, and the run lengths of the long ones
CodecBytes == {0, 5, 7}
SegmentBytes == {0, 7}
SegmentLengths == {1, 2, 256}

\* the most one token counts
RunCap == 255

\* the zeros at element pos and after it, counted up to the cap
ZeroRun(d, pos) ==
    Min({q \in pos..(Len(d) + 1) :
            q = Len(d) + 1 \/ q = pos + RunCap \/ d[q] # 0}) - pos

\* a literal run goes on over a byte that is not zero, and over a zero that
\* no second zero follows (the end of the data closes a literal run as two
\* zeros would, unless the data ends in a zero)
GoesOn(d, q) ==
    /\ q <= Len(d)
    /\ \/ d[q] # 0
       \/ q < Len(d) /\ d[q + 1] # 0
       \/ q = Len(d)

\* the bytes of the literal run at element pos, counted up to the cap
LiteralRun(d, pos) ==
    Min({q \in pos..(Len(d) + 1) : q = pos + RunCap \/ ~GoesOn(d, q)}) - pos

\* the tokens for the data from element pos on, a zero-run token first
RECURSIVE EncodeFrom(_, _)
EncodeFrom(d, pos) ==
    LET n == ZeroRun(d, pos)
        m == LiteralRun(d, pos + n)
    IN  IF pos + n > Len(d) THEN <<n>>
        ELSE <<n, m>> \o SubSeq(d, pos + n, pos + n + m - 1)
             \o (IF pos + n + m > Len(d) THEN <<>> ELSE EncodeFrom(d, pos + n + m))

\* a slip: no zero-length zero-run token before data that begins with a
\* byte that is not zero
EncodeWithoutLeadingToken(d) ==
    IF d # <<>> /\ d[1] # 0 THEN Tail(EncodeFrom(d, 1)) ELSE EncodeFrom(d, 1)

encode(d) == EncodeFrom(d, 1)

Zeros(n) == [i \in 1..n |-> 0]

\* the bytes the tokens from element i on stand for
RECURSIVE DecodeFrom(_, _)
DecodeFrom(t, i) ==
    IF i > Len(t) THEN <<>>
    ELSE IF i + 1 > Len(t) THEN Zeros(t[i])
    ELSE Zeros(t[i]) \o SubSeq(t, i + 2, i + 1 + t[i + 1])
         \o DecodeFrom(t, i + 2 + t[i + 1])

decode(t) == DecodeFrom(t, 1)

\* the stream is a zero-run token, then literal-run and zero-run tokens in
\* turn, each literal-run token followed by as many bytes as it says
RECURSIVE Alternates(_, _)
Alternates(t, i) ==
    \/ i = Len(t) + 1
    \/ i = Len(t)
    \/ /\ i + 1 + t[i + 1] <= Len(t)
       /\ Alternates(t, i + 2 + t[i + 1])

RECURSIVE Expand(_)
Expand(segs) ==
    IF segs = <<>> THEN <<>>
    ELSE [i \in 1..Head(segs)[2] |-> Head(segs)[1]] \o Expand(Tail(segs))

ShortBuffers == UNION {[1..n -> CodecBytes] : n \in 0..MaxBufferLen}

LongBuffers ==
    {Expand(segs) : segs \in UNION {[1..n -> SegmentBytes \X SegmentLengths] : n \in 1..MaxSegments}}

InitRun ==
    /\ PackIdle /\ GlyphsIdle /\ EmitIdle /\ NpotIdle /\ DownloadIdle /\ MarkdownIdle
    /\ cpc = "data"
    /\ buffer \in ShortBuffers \cup LongBuffers
    /\ planeWidth = 0
    /\ coded = <<>>
    /\ restored = <<>>

Encode ==
    /\ cpc = "data"
    /\ coded' = encode(buffer)
    /\ cpc' = "tokens"
    /\ UNCHANGED <<buffer, planeWidth, restored, packVars, glyphVars, emitVars, npotVars, dlVars, mdVars>>

Decode ==
    /\ cpc = "tokens"
    /\ restored' = decode(coded)
    /\ cpc' = "decoded"
    /\ UNCHANGED <<buffer, planeWidth, coded, packVars, glyphVars, emitVars, npotVars, dlVars, mdVars>>

NextRun == Encode \/ Decode

SpecRun == InitRun /\ [][NextRun]_vars

\* C7: decode(encode(d)) = d for every buffer d, the empty one, those with
\* runs longer than 255 and those with single zeros inside literal runs; the
\* tokens are bytes and alternate, a zero-run token first.
RunCodecRoundTrip ==
    /\ cpc \in {"tokens", "decoded"} =>
          /\ IsBytes(coded)
          /\ Len(coded) >= 1
          /\ Alternates(coded, 1)
    /\ cpc = "decoded" => restored = buffer

\* C7 happens: a zero run and a literal run longer than 255 were split, a
\* single zero was taken into a literal run, and the buffer came back
LongRunsDecoded ==
    /\ cpc = "decoded"
    /\ \E i \in 1..(Len(buffer) - 255) : \A j \in i..(i + 255) : buffer[j] = 0
    /\ \E i \in 1..(Len(buffer) - 255) : \A j \in i..(i + 255) : buffer[j] # 0
    /\ \E i \in 2..Len(buffer) :
          buffer[i] = 0 /\ buffer[i - 1] # 0 /\ (i = Len(buffer) \/ buffer[i + 1] # 0)

----------------------------------------------------------------------------
(* download_examples.py: __main__ from line 154 on, DownloadHelper.download *)
(* and DownloadHelper.download_zip.  The network, the archive and the file  *)
(* system decide whether a step succeeds.                                   *)

MaxUrls == 3

\* lines 171-176: the calls of the three loops, in order: one download per
\* chart link, one for EXTRA_DOWNLOADS_RAW, one download_zip for
\* EXTRA_DOWNLOADS_ZIP
DownloadList(links) == links \o <<"download">> \o <<"download_zip">>

InitDownload ==
    /\ PackIdle /\ GlyphsIdle /\ EmitIdle /\ CodecIdle /\ NpotIdle /\ MarkdownIdle
    /\ dpc = "charts"
    /\ urls = <<>>
    /\ di = 0
    /\ zipdata = "unbound"
    /\ errors = <<>>
    /\ failed = <<>>
    /\ stored = <<>>
    /\ attempted = {}

\* lines 155-168: the chart page gives 0..MaxUrls links, or cannot be read
FetchCharts ==
    /\ dpc = "charts"
    /\ \/ /\ \E n \in 0..MaxUrls : urls' = [i \in 1..n |-> "download"]
          /\ UNCHANGED <<errors, failed>>
       \/ /\ urls' = <<>>
          /\ errors' = Append(errors, "failed to download modarchive.org charts")
          /\ failed' = Append(failed, "charts")
    /\ di' = 1
    /\ dpc' = "loops"
    /\ UNCHANGED <<zipdata, stored, attempted, packVars, glyphVars, emitVars, codecVars, npotVars, mdVars>>

\* lines 47-62 as seen by the caller: the file is there under its name, is
\* there under another name and gets renamed, the rename fails, or the file
\* is not there; only the last returns False
Existing == {"same", "renamed", "rename failed", "absent"}

\* lines 64-96, called by lines 171-174
Download ==
    /\ dpc = "loops"
    /\ di <= Len(DownloadList(urls))
    /\ DownloadList(urls)[di] = "download"
    /\ attempted' = attempted \cup {di}
    /\ \E e \in Existing :
          \/ /\ e \in {"same", "renamed"}
             /\ UNCHANGED <<errors, failed, stored>>
          \/ /\ e = "rename failed"
             /\ errors' = Append(errors, "failed to rename")
             /\ failed' = Append(failed, "rename")
             /\ UNCHANGED stored
          \/ /\ e = "absent"
             /\ \/ /\ stored' = Append(stored, <<di, "module">>)
                   /\ UNCHANGED <<errors, failed>>
                \/ /\ errors' = Append(errors, "module download failed")
                   /\ failed' = Append(failed, "download")
                   /\ UNCHANGED stored
    /\ di' = di + 1
    /\ UNCHANGED <<dpc, urls, zipdata, packVars, glyphVars, emitVars, codecVars, npotVars, mdVars>>

\* lines 98-102, called by line 176
ZipBegin ==
    /\ dpc = "loops"
    /\ di <= Len(DownloadList(urls))
    /\ DownloadList(urls)[di] = "download_zip"
    /\ attempted' = attempted \cup {di}
    /\ \E e \in Existing :
          \/ /\ e \in {"same", "renamed"}
             /\ di' = di + 1
             /\ UNCHANGED <<dpc, errors, failed>>
          \/ /\ e = "rename failed"
             /\ errors' = Append(errors, "failed to rename")
             /\ failed' = Append(failed, "rename")
             /\ di' = di + 1
             /\ UNCHANGED dpc
          \/ /\ e = "absent"
             /\ dpc' = "zip download"
             /\ UNCHANGED <<di, errors, failed>>
    /\ UNCHANGED <<urls, zipdata, stored, packVars, glyphVars, emitVars, codecVars, npotVars, mdVars>>

\* lines 105-109: data = f.read(), or the error is printed and data stays unbound
ZipDownload ==
    /\ dpc = "zip download"
    /\ \/ /\ zipdata' = "archive"
          /\ UNCHANGED <<errors, failed>>
       \/ /\ errors' = Append(errors, "archive download failed")
          /\ failed' = Append(failed, "zip download")
          /\ UNCHANGED zipdata
    /\ dpc' = "zip extract"
    /\ UNCHANGED <<urls, di, stored, attempted, packVars, glyphVars, emitVars, codecVars, npotVars, mdVars>>

\* lines 112-116: reading the unbound data raises UnboundLocalError; a broken
\* archive raises zipfile.BadZipFile and a missing member KeyError, none of
\* them an EnvironmentError; an EnvironmentError is printed
ZipExtract ==
    /\ dpc = "zip extract"
    /\ IF zipdata = "unbound"
       THEN /\ dpc' = "UnboundLocalError"
            /\ UNCHANGED <<zipdata, errors, failed>>
       ELSE \/ /\ zipdata' = "member"
               /\ dpc' = "zip store"
               /\ UNCHANGED <<errors, failed>>
            \/ /\ errors' = Append(errors, "archive extraction failed")
               /\ failed' = Append(failed, "zip extract")
               /\ dpc' = "zip store"
               /\ UNCHANGED zipdata
            \/ /\ failed' = Append(failed, "zip extract")
               /\ dpc' \in {"BadZipFile", "KeyError"}
               /\ UNCHANGED <<zipdata, errors>>
    /\ UNCHANGED <<urls, di, stored, attempted, packVars, glyphVars, emitVars, codecVars, npotVars, mdVars>>

\* lines 119-123: f.write(data)
ZipStore ==
    /\ dpc = "zip store"
    /\ \/ /\ stored' = Append(stored, <<di, zipdata>>)
          /\ UNCHANGED <<errors, failed>>
       \/ /\ errors' = Append(errors, "file output failed")
          /\ failed' = Append(failed, "zip store")
          /\ UNCHANGED stored
    /\ di' = di + 1
    /\ dpc' = "loops"
    /\ UNCHANGED <<urls, zipdata, attempted, packVars, glyphVars, emitVars, codecVars, npotVars, mdVars>>

\* line 176 was the last: the script ends
EndOfLists ==
    /\ dpc = "loops"
    /\ di > Len(DownloadList(urls))
    /\ dpc' = "done"
    /\ UNCHANGED <<urls, di, zipdata, errors, failed, stored, attempted, packVars, glyphVars, emitVars, codecVars, npotVars, mdVars>>

NextDownload ==
    FetchCharts \/ Download \/ ZipBegin \/ ZipDownload \/ ZipExtract \/ ZipStore \/ EndOfLists

SpecDownload == InitDownload /\ [][NextDownload]_vars

\* the run was ended by an exception nobody caught
Aborted == dpc \in {"UnboundLocalError", "BadZipFile", "KeyError"}

\* C19: the downloader is best-effort: a failed download, extraction or
\* store is reported as an error and does not abort the run, every entry of
\* the lists is attempted, and no step uses data of a step that failed: an
\* extraction never reads data the download did not deliver, and a file is
\* only written from data the extraction delivered.
BestEffort ==
    /\ ~Aborted
    /\ Len(errors) = Len(failed)
    /\ dpc = "done" => attempted = DOMAIN DownloadList(urls)
    /\ dpc = "zip extract" => zipdata = "archive"
    /\ \A i \in DOMAIN stored : stored[i][2] \in {"module", "member"}

----------------------------------------------------------------------------
(* md2html.py, class MarkdownToHTML.  The object is the record conv; of    *)
(* self.html only the block tags are kept, <<"<", tag>> for an opening and *)
(* <<"/", name>> for a closing tag.  A text is "" or "text": the code only *)
(* tests whether it is empty.                                              *)

MaxLines == 4

\* the tags of the target stacks; a heading's tag carries its id attribute
Tags == {"p", "pre", "ul", "li", "table", "tr", "td", "th", "h1 id", "h2 id"}

\* tag.split()[0]
TagName(tag) == IF tag = "h1 id" THEN "h1" ELSE IF tag = "h2 id" THEN "h2" ELSE tag

\* Python's order on the tag strings, by code point
TagsSorted == <<"h1 id", "h2 id", "li", "p", "pre", "table", "td", "th", "tr", "ul">>

TagRank(tag) == CHOOSE i \in DOMAIN TagsSorted : TagsSorted[i] = tag

\* Python's list comparison a < b
RECURSIVE ListLess(_, _)
ListLess(a, b) ==
    IF a = <<>> \/ b = <<>> THEN a = <<>> /\ b # <<>>
    ELSE \/ TagRank(Head(a)) < TagRank(Head(b))
         \/ Head(a) = Head(b) /\ ListLess(Tail(a), Tail(b))

\* the lines fed.  start is the first character of the stripped line ("a"
\* for any other text); content is what remains for the paragraph; level and
\* excluded belong to a heading (hid in self.excludes); cells are the stripped
\* columns of a table row, <<>> for a row of dashes only.
Line(blank, lead, start, level, excluded, content, cells) ==
    [blank |-> blank, lead |-> lead, start |-> start, level |-> level,
     excluded |-> excluded, content |-> content, cells |-> cells]

Lines ==
    {Line(TRUE, 0, "", 0, FALSE, "", <<>>)}
    \cup {Line(FALSE, i, "a", 0, FALSE, "text", <<>>) : i \in {0, 2, 4}}
    \cup {Line(FALSE, i, "-", 0, FALSE, "text", <<>>) : i \in {0, 2}}
    \cup {Line(FALSE, 0, "#", l, x, "text", <<>>) : l \in {1, 2}, x \in BOOLEAN}
    \cup {Line(FALSE, 0, "#", 1, FALSE, "", <<>>)}
    \cup {Line(FALSE, 0, "|", 0, FALSE, "", c) : c \in {<<>>, <<"text", "text">>, <<"", "text">>}}

\* lines 98-110, title as given to the constructor
NewConverter(title) ==
    [title |-> title, html |-> <<>>, current_stack |-> <<>>, para_stack |-> <<>>,
     enum_indent_stack |-> <<>>, para |-> "", indent |-> 0, auto_close |-> TRUE,
     table_header |-> TRUE, skip |-> 0, raised |-> ""]

\* lines 112-113
in_tag(st, tag) ==
    st.para_stack # <<>> /\ TagName(st.para_stack[Len(st.para_stack)]) = tag

\* a slip: the tag is popped and no closing tag is written
PopSilently(st) ==
    IF st.current_stack = <<>> THEN st
    ELSE [st EXCEPT !.current_stack = SubSeq(@, 1, Len(@) - 1)]

\* lines 209-213
current_stack_pop(st) ==
    IF st.current_stack = <<>> THEN st
    ELSE [st EXCEPT !.current_stack = SubSeq(@, 1, Len(@) - 1),
                    !.html = Append(@, <<"/", TagName(st.current_stack[Len(st.current_stack)])>>)]

\* lines 197-198
RECURSIVE PopWhile(_, _)
PopWhile(st, target) ==
    LET cur == st.current_stack
    IN  IF cur # <<>> /\ (Len(cur) > Len(target) \/ cur # SubSeq(target, 1, Len(cur)))
        THEN PopWhile(current_stack_pop(st), target)
        ELSE st

\* lines 201-204; target_stack[len(self.current_stack)] past the end of the
\* list raises IndexError
RECURSIVE PushWhile(_, _)
PushWhile(st, target) ==
    LET cur == st.current_stack
    IN  IF ~ListLess(cur, target) THEN st
        ELSE IF Len(cur) >= Len(target) THEN [st EXCEPT !.raised = "IndexError"]
        ELSE PushWhile([st EXCEPT !.current_stack = Append(@, target[Len(cur) + 1]),
                                  !.html = Append(@, <<"<", target[Len(cur) + 1]>>)], target)

\* lines 186-207
flush(st, target) ==
    LET closed == IF st.para # "" /\ st.auto_close THEN current_stack_pop(st) ELSE st
        out == IF st.skip = 0 THEN PushWhile(PopWhile(closed, target), target) ELSE st
    IN  [out EXCEPT !.para = "", !.para_stack = target, !.auto_close = TRUE]

\* lines 180-184
new_para(st, target, content, ind, auto) ==
    [flush(st, target) EXCEPT !.para = content, !.indent = ind, !.auto_close = auto]

\* ['ul','li'] * depth
RECURSIVE Bullets(_)
Bullets(depth) == IF depth = 0 THEN <<>> ELSE <<"ul", "li">> \o Bullets(depth - 1)

\* lines 173-174: one paragraph per column
RECURSIVE Cells(_, _, _)
Cells(st, cols, td) ==
    IF cols = <<>> THEN st
    ELSE Cells(new_para(st, <<"table", "tr", td>>, Head(cols), 0, TRUE), Tail(cols), td)

\* lines 163-164
NewSkip(skip, level, excluded) ==
    IF skip = 0 \/ level <= skip THEN (IF excluded THEN level ELSE 0) ELSE skip

\* lines 122-178: feed one line of text
feed(st, line) ==
    IF line.blank
    THEN IF in_tag(st, "pre")
         THEN [st EXCEPT !.para = "text"]
         ELSE [flush(st, <<>>) EXCEPT !.indent = 0, !.enum_indent_stack = <<>>,
                                      !.table_header = TRUE]
    ELSE LET bullet == line.start = "-"
             ind == IF bullet THEN line.lead + 2 ELSE line.lead
         IN  IF st.para # "" /\ ~bullet /\ ind >= st.indent
             THEN [st EXCEPT !.para = "text"]
             ELSE IF bullet
             THEN LET stack == SelectSeq(st.enum_indent_stack, LAMBDA i : i < ind) \o <<ind>>
                      depth == Len(stack)
                      closed == flush([st EXCEPT !.enum_indent_stack = stack],
                                      Bullets(depth - 1) \o <<"ul">>)
                  IN  new_para(closed, Bullets(depth), line.content, ind, FALSE)
             ELSE IF ind >= 4
             THEN new_para(st, <<"pre">>, line.content, ind, TRUE)
             ELSE IF ind = 0 /\ line.start = "#"
             THEN LET closed == flush(st, <<>>)
                      titled == IF closed.title \in {"None", ""}
                                THEN [closed EXCEPT !.title = line.content] ELSE closed
                      skipped == [titled EXCEPT !.skip = NewSkip(@, line.level, line.excluded)]
                  IN  new_para(skipped, <<IF line.level = 1 THEN "h1 id" ELSE "h2 id">>,
                               line.content, 0, TRUE)
             ELSE IF ind = 0 /\ line.start = "|"
             THEN LET td == IF st.table_header THEN "th" ELSE "td"
                      row == [st EXCEPT !.table_header = FALSE]
                  IN  IF line.cells # <<>>
                      THEN flush(Cells(row, line.cells, td), <<"table">>)
                      ELSE row
             ELSE new_para(st, <<"p">>, line.content, ind, TRUE)

\* conv = MarkdownToHTML(title=args.title, ...); "None" is no title
InitMarkdown ==
    /\ PackIdle /\ GlyphsIdle /\ EmitIdle /\ CodecIdle /\ NpotIdle /\ DownloadIdle
    /\ mpc = "feeding"
    /\ conv \in {NewConverter(t) : t \in {"None", "text"}}
    /\ fed = 0

\* conv.feed(line) for one line of the input file
Feed ==
    /\ mpc = "feeding"
    /\ fed < MaxLines
    /\ \E line \in Lines : conv' = feed(conv, line)
    /\ fed' = fed + 1
    /\ UNCHANGED <<mpc, packVars, glyphVars, emitVars, codecVars, npotVars, dlVars>>

\* lines 255-257: flush, then HTMLHeader.replace("$TITLE", self.title), which
\* raises TypeError when the title is None
GetHtml ==
    /\ mpc = "feeding"
    /\ conv' = flush(conv, <<>>)
    /\ mpc' = IF conv.title = "None" THEN "TypeError" ELSE "html"
    /\ UNCHANGED <<fed, packVars, glyphVars, emitVars, codecVars, npotVars, dlVars>>

NextMarkdown == Feed \/ GetHtml

SpecMarkdown == InitMarkdown /\ [][NextMarkdown]_vars

\* reading the tags written so far from left to right: the opened tags not
\* yet closed, innermost last, or <<"unbalanced">> as soon as a closing tag
\* does not close the innermost open tag
RECURSIVE OpenTags(_, _)
OpenTags(html, open) ==
    IF html = <<>> THEN open
    ELSE IF Head(html)[1] = "<" THEN OpenTags(Tail(html), Append(open, Head(html)[2]))
    ELSE IF open # <<>> /\ TagName(open[Len(open)]) = Head(html)[2]
         THEN OpenTags(Tail(html), SubSeq(open, 1, Len(open) - 1))
         ELSE <<"unbalanced">>

\* C20: the block tags written are balanced: every closing tag closes the
\* innermost open tag, current_stack is the list of opened and unclosed
\* tags, it is empty after get_html, and it is empty whenever skip is
\* non-zero.
TagsBalanced ==
    mpc # "idle" =>
        /\ conv.raised = ""
        /\ OpenTags(conv.html, <<>>) = conv.current_stack
        /\ mpc \in {"html", "TypeError"} => conv.current_stack = <<>>
        /\ conv.skip # 0 => conv.current_stack = <<>>

\* get_html has closed a document that opened a nested list and then ran
\* into an excluded section
SkippedSectionClosed ==
    /\ mpc = "html"
    /\ conv.skip # 0
    /\ \E i \in DOMAIN conv.html : conv.html[i] = <<"/", "li">>
    /\ \E i \in DOMAIN conv.html : conv.html[i] = <<"/", "h1">>

=============================================================================
